---- MODULE Spec2Model ----
(***************************************************************************)
(* MeshSOS backend (mesh-sos-backend/app): the sos_packets table and the   *)
(* four request handlers of app/routes/sos.py.                             *)
(*                                                                         *)
(* Time is counted in hours.  A handler that issues two statements         *)
(* against the database (SELECT, then INSERT/UPDATE + COMMIT) is two       *)
(* steps: other workers sharing the database may run between them.         *)
(***************************************************************************)
EXTENDS Integers, Sequences, FiniteSets, TLC

\* ---------------------------------------------------------------- bounds
NumHandlers == 2        \* request handlers that may be in flight at once
TickHours   == 12       \* hours the server clock advances per Tick
MaxTime     == 12       \* the clock stops advancing here

Handlers == 1..NumHandlers

\* ------------------------------------------------------ program constants
MaxAgeHours == 24
MinHours    == 1
MaxHours    == 168
MinLimit    == 1
MaxLimit    == 500
DefaultHours == 24
DefaultLimit == 100

\* ----------------------------------------------------------------- enums
EmergencyType  == {"MEDICAL", "FIRE", "FLOOD", "EARTHQUAKE", "GENERAL"}
DeliveryStatus == {"PENDING", "RELAYED", "DELIVERED", "RESPONDED"}

\* Optional[...] values: None is the empty tuple, a value v is <<v>>.
None    == <<>>
Some(v) == <<v>>

\* A query parameter that is not given.
Absent == "None"

\* ---------------------------------------------------------------- inputs
\* sos_id values (UUIDs) clients use
Ids            == {"u1", "u2"}
\* the sos_id concurrent handlers contend for
RaceIds        == {"u1"}
\* a response that names no packet
NoId           == ""
\* emergency_type strings as clients send them (body and query string)
TypeInputs     == {"FIRE", "medical"}
\* emergency_type query parameter of active-sos
FilterInputs   == {Absent, "MEDICAL", "medical"}
\* now - packet.timestamp of an uploaded packet, in hours
PacketAges     == {0, 2, 25}
ResponderIds   == {"r1", "r2"}
\* the remaining fields of an upload body, all within their ranges
GoodBody ==
    [device_id          |-> "dev1",
     latitude           |-> 37,
     longitude          |-> -122,
     accuracy           |-> <<10>>,
     optional_message   |-> <<"help">>,
     battery_percentage |-> <<75>>,
     hop_count          |-> 2,
     ttl                |-> 8,
     signature          |-> <<"sig">>]
\* upload bodies: the good one, and one per field taken out of its range
BodyInputs ==
    {GoodBody,
     [GoodBody EXCEPT !.latitude = 200],
     [GoodBody EXCEPT !.longitude = -181],
     [GoodBody EXCEPT !.battery_percentage = <<101>>],
     [GoodBody EXCEPT !.hop_count = 101],
     [GoodBody EXCEPT !.ttl = -1]}
\* upload requests <<age of the timestamp, emergency_type, other fields>>
UploadRequests ==
    {<<a, t, GoodBody>> : a \in PacketAges, t \in TypeInputs}
    \cup {<<0, "medical", b>> : b \in BodyInputs}
\* hours and limit query parameters: not given, or a value in range
HoursInputs    == {<<>>, <<1>>}
LimitInputs    == {<<>>, <<1>>}
\* hours and limit values on either side of their ranges
BadHoursInputs == {<<0>>, <<169>>}
BadLimitInputs == {<<0>>, <<501>>}
\* settings.api_key
ConfiguredKey  == "meshsos-dev-api-key-change-in-production"
\* X-API-Key header: not sent, a wrong key, the configured key
KeyInputs      == {<<>>, <<"invalid">>, <<ConfiguredKey>>}
\* active-sos requests <<emergency_type, hours, limit, X-API-Key>>:
\* those with hours and limit in range and the configured key, ...
KeyedActiveRequests ==
    {<<t, h, l, <<ConfiguredKey>>>> :
        t \in FilterInputs, h \in HoursInputs, l \in LimitInputs}
\* ... and with them those with hours or limit out of range or another key
ActiveRequests ==
    KeyedActiveRequests
    \cup {<<Absent, h, <<>>, <<ConfiguredKey>>>> : h \in BadHoursInputs}
    \cup {<<Absent, <<>>, l, <<ConfiguredKey>>>> : l \in BadLimitInputs}
    \cup {<<Absent, <<>>, <<>>, k>> : k \in KeyInputs}

VARIABLES
    store,      \* table sos_packets: the rows, in insertion order
    now,        \* datetime.utcnow(), in hours
    pc,         \* per handler: "idle", "upload_insert" or "mark_commit"
    local,      \* per handler: the session's pending object
    resp        \* the HTTP response produced by the latest step

vars == <<store, now, pc, local, resp>>

\* str.upper() on the strings of the model
Upper(s) ==
    CASE s = "medical" -> "MEDICAL"
      [] s = "fire"    -> "FIRE"
      [] OTHER         -> s

\* SosPacketCreate.validate_emergency_type followed by the enum validation
validate_emergency_type(v) == Upper(v)

\* Optional[EmergencyType] = Query(None): the enum is matched by value
ParseEmergencyTypeQuery(v) ==
    IF v = Absent THEN [ok |-> TRUE, value |-> Absent]
    ELSE IF v \in EmergencyType THEN [ok |-> TRUE, value |-> v]
    ELSE [ok |-> FALSE, value |-> Absent]

\* The field constraints without the one on latitude.
FieldsInRangeNoLatitude(body) ==
    /\ body.longitude >= -180 /\ body.longitude <= 180
    /\ (body.battery_percentage # None =>
            body.battery_percentage[1] >= 0 /\ body.battery_percentage[1] <= 100)
    /\ body.hop_count >= 0 /\ body.hop_count <= 100
    /\ body.ttl >= 0 /\ body.ttl <= 100

\* The Field(...) constraints of SosPacketCreate on the numeric fields.
FieldsInRange(body) ==
    /\ body.latitude >= -90 /\ body.latitude <= 90
    /\ body.longitude >= -180 /\ body.longitude <= 180
    /\ (body.battery_percentage # None =>
            body.battery_percentage[1] >= 0 /\ body.battery_percentage[1] <= 100)
    /\ body.hop_count >= 0 /\ body.hop_count <= 100
    /\ body.ttl >= 0 /\ body.ttl <= 100

\* The packet a request body validates to (SosPacketCreate).
SosPacketCreate(id, ts, type, body) ==
    [sos_id             |-> id,
     device_id          |-> body.device_id,
     timestamp          |-> ts,
     latitude           |-> body.latitude,
     longitude          |-> body.longitude,
     accuracy           |-> body.accuracy,
     emergency_type     |-> type,
     optional_message   |-> body.optional_message,
     battery_percentage |-> body.battery_percentage,
     hop_count          |-> body.hop_count,
     ttl                |-> body.ttl,
     signature          |-> body.signature]

\* db.query(SosPacketDB).filter(SosPacketDB.sos_id == id), as row positions
RowsWithId(table, id) == {i \in 1..Len(table) : table[i].sos_id = id}

\* .first() of that query
First(S) == CHOOSE i \in S : \A j \in S : i <= j

NoResp == [op |-> "none", code |-> 0, message |-> "", sos_id |-> NoId,
           packets |-> <<>>, args |-> <<>>]

Response(op, code, message, id) ==
    [op |-> op, code |-> code, message |-> message, sos_id |-> id,
     packets |-> <<>>, args |-> <<>>]

\* An early return of upload_sos, with the timestamp of the packet it
\* answers.
UploadReply(code, message, id, ts) ==
    [Response("upload-sos", code, message, id) EXCEPT !.args = <<ts>>]

Init ==
    /\ store = <<>>
    /\ now = 0
    /\ pc = [p \in Handlers |-> "idle"]
    /\ local = [p \in Handlers |-> None]
    /\ resp = NoResp

Tick ==
    /\ now + TickHours <= MaxTime
    /\ now' = now + TickHours
    /\ resp' = NoResp
    /\ UNCHANGED <<store, pc, local>>

\* ------------------------------------------------------------ upload_sos
\* packet.timestamp of a request that arrives now
Timestamps == {now - a : a \in PacketAges}

\* A row built with latitude and longitude exchanged.
NewRowSwapped(packet) ==
    [sos_id             |-> packet.sos_id,
     device_id          |-> packet.device_id,
     timestamp          |-> packet.timestamp,
     latitude           |-> packet.longitude,
     longitude          |-> packet.latitude,
     accuracy           |-> packet.accuracy,
     emergency_type     |-> packet.emergency_type,
     optional_message   |-> packet.optional_message,
     battery_percentage |-> packet.battery_percentage,
     hop_count          |-> packet.hop_count,
     ttl                |-> packet.ttl,
     signature          |-> packet.signature,
     status             |-> "DELIVERED",
     received_at        |-> now,
     responded_at       |-> None,
     responder_id       |-> None]

\* The row with the status of a packet that has not reached the server.
NewRowPending(packet) ==
    [sos_id             |-> packet.sos_id,
     device_id          |-> packet.device_id,
     timestamp          |-> packet.timestamp,
     latitude           |-> packet.latitude,
     longitude          |-> packet.longitude,
     accuracy           |-> packet.accuracy,
     emergency_type     |-> packet.emergency_type,
     optional_message   |-> packet.optional_message,
     battery_percentage |-> packet.battery_percentage,
     hop_count          |-> packet.hop_count,
     ttl                |-> packet.ttl,
     signature          |-> packet.signature,
     status             |-> "PENDING",
     received_at        |-> now,
     responded_at       |-> None,
     responder_id       |-> None]

\* The row upload_sos builds for a validated packet (SosPacketDB(...)).
NewRow(packet) ==
    [sos_id             |-> packet.sos_id,
     device_id          |-> packet.device_id,
     timestamp          |-> packet.timestamp,
     latitude           |-> packet.latitude,
     longitude          |-> packet.longitude,
     accuracy           |-> packet.accuracy,
     emergency_type     |-> packet.emergency_type,
     optional_message   |-> packet.optional_message,
     battery_percentage |-> packet.battery_percentage,
     hop_count          |-> packet.hop_count,
     ttl                |-> packet.ttl,
     signature          |-> packet.signature,
     status             |-> "DELIVERED",
     received_at        |-> now,
     responded_at       |-> None,
     responder_id       |-> None]

\* upload_sos without the deduplication SELECT.
UploadSosLookupNoDedup(p, id, ts, rawType, body) ==
    /\ pc[p] = "idle"
    /\ IF ~FieldsInRange(body)
       THEN /\ resp' = UploadReply(422, "validation error", id, ts)
            /\ UNCHANGED <<pc, local>>
       ELSE IF now - ts > MaxAgeHours
       THEN /\ resp' = UploadReply(400,
                                "SOS packet timestamp too old (>24 hours)", id, ts)
            /\ UNCHANGED <<pc, local>>
       ELSE /\ pc' = [pc EXCEPT ![p] = "upload_insert"]
            /\ local' = [local EXCEPT ![p] =
                   SosPacketCreate(id, ts, validate_emergency_type(rawType), body)]
            /\ resp' = NoResp
    /\ UNCHANGED <<store, now>>

\* upload_sos without the timestamp check.
UploadSosLookupNoStale(p, id, ts, rawType, body) ==
    /\ pc[p] = "idle"
    /\ LET type == validate_emergency_type(rawType)
       IN  IF type \notin EmergencyType \/ ~FieldsInRange(body)
           THEN /\ resp' = UploadReply(422, "validation error", id, ts)
                /\ UNCHANGED <<pc, local>>
           ELSE IF RowsWithId(store, id) # {}
           THEN /\ resp' = UploadReply(200,
                                    "SOS packet already exists in database", id, ts)
                /\ UNCHANGED <<pc, local>>
           ELSE /\ pc' = [pc EXCEPT ![p] = "upload_insert"]
                /\ local' = [local EXCEPT ![p] = SosPacketCreate(id, ts, type, body)]
                /\ resp' = NoResp
    /\ UNCHANGED <<store, now>>

\* upload_sos with the timestamp check ahead of the deduplication SELECT.
UploadSosLookupStaleFirst(p, id, ts, rawType, body) ==
    /\ pc[p] = "idle"
    /\ LET type == validate_emergency_type(rawType)
       IN  IF type \notin EmergencyType \/ ~FieldsInRange(body)
           THEN /\ resp' = UploadReply(422, "validation error", id, ts)
                /\ UNCHANGED <<pc, local>>
           ELSE IF now - ts > MaxAgeHours
           THEN /\ resp' = UploadReply(400,
                                    "SOS packet timestamp too old (>24 hours)", id, ts)
                /\ UNCHANGED <<pc, local>>
           ELSE IF RowsWithId(store, id) # {}
           THEN /\ resp' = UploadReply(200,
                                    "SOS packet already exists in database", id, ts)
                /\ UNCHANGED <<pc, local>>
           ELSE /\ pc' = [pc EXCEPT ![p] = "upload_insert"]
                /\ local' = [local EXCEPT ![p] = SosPacketCreate(id, ts, type, body)]
                /\ resp' = NoResp
    /\ UNCHANGED <<store, now>>

\* First half of upload_sos: body validation, the deduplication SELECT and
\* the timestamp check.
UploadSosLookup(p, id, ts, rawType, body) ==
    /\ pc[p] = "idle"
    /\ LET type == validate_emergency_type(rawType)
           existing == RowsWithId(store, id)
       IN  IF type \notin EmergencyType \/ ~FieldsInRange(body)
           THEN /\ resp' = UploadReply(422, "validation error", id, ts)
                /\ UNCHANGED <<pc, local>>
           ELSE IF existing # {}
           THEN /\ resp' = UploadReply(200,
                                    "SOS packet already exists in database", id, ts)
                /\ UNCHANGED <<pc, local>>
           ELSE IF now - ts > MaxAgeHours
           THEN /\ resp' = UploadReply(400,
                                    "SOS packet timestamp too old (>24 hours)", id, ts)
                /\ UNCHANGED <<pc, local>>
           ELSE /\ pc' = [pc EXCEPT ![p] = "upload_insert"]
                /\ local' = [local EXCEPT ![p] = SosPacketCreate(id, ts, type, body)]
                /\ resp' = NoResp
    /\ UNCHANGED <<store, now>>

\* INSERT OR REPLACE: a row with the same id is overwritten.
InsertRowReplace(table, row) ==
    IF \E i \in 1..Len(table) : table[i].sos_id = row.sos_id
    THEN [ok |-> TRUE,
          table |-> [i \in 1..Len(table) |->
                        IF table[i].sos_id = row.sos_id THEN row ELSE table[i]]]
    ELSE [ok |-> TRUE, table |-> Append(table, row)]

\* INSERT INTO sos_packets: the primary key sos_id rejects a second row
\* with the same id (IntegrityError).
InsertRow(table, row) ==
    IF \E i \in 1..Len(table) : table[i].sos_id = row.sos_id
    THEN [ok |-> FALSE, table |-> table]
    ELSE [ok |-> TRUE, table |-> Append(table, row)]

\* Second half of upload_sos: db.add, db.commit.  The handler has no
\* except clause: an IntegrityError leaves it as a 500.
UploadSosInsert(p) ==
    /\ pc[p] = "upload_insert"
    /\ LET ins == InsertRow(store, NewRow(local[p]))
       IN  /\ store' = ins.table
           /\ resp' = IF ins.ok
                      THEN Response("upload-sos", 200,
                                    "SOS packet uploaded successfully", local[p].sos_id)
                      ELSE Response("upload-sos", 500,
                                    "Internal Server Error", local[p].sos_id)
    /\ pc' = [pc EXCEPT ![p] = "idle"]
    /\ local' = [local EXCEPT ![p] = None]
    /\ UNCHANGED now

\* -------------------------------------------------------- mark_responded
\* mark_responded without the early return for a RESPONDED packet.
MarkRespondedLookupNoCheck(p, id, responder) ==
    /\ pc[p] = "idle"
    /\ IF RowsWithId(store, id) = {}
       THEN /\ resp' = Response("mark-responded", 404, "not found", id)
            /\ UNCHANGED <<pc, local>>
       ELSE /\ pc' = [pc EXCEPT ![p] = "mark_commit"]
            /\ local' = [local EXCEPT ![p] =
                   [sos_id       |-> id,
                    status       |-> "RESPONDED",
                    responded_at |-> Some(now),
                    responder_id |-> Some(responder)]]
            /\ resp' = NoResp
    /\ UNCHANGED <<store, now>>

\* mark_responded that goes on to the UPDATE when the SELECT finds no row.
MarkRespondedLookupNoFind(p, id, responder) ==
    /\ pc[p] = "idle"
    /\ LET found == RowsWithId(store, id)
       IN  IF found # {} /\ store[First(found)].status = "RESPONDED"
           THEN /\ resp' = Response("mark-responded", 200,
                          "SOS packet already marked as responded", id)
                /\ UNCHANGED <<pc, local>>
           ELSE /\ pc' = [pc EXCEPT ![p] = "mark_commit"]
                /\ local' = [local EXCEPT ![p] =
                       [sos_id       |-> id,
                        status       |-> "RESPONDED",
                        responded_at |-> Some(now),
                        responder_id |-> Some(responder)]]
                /\ resp' = NoResp
    /\ UNCHANGED <<store, now>>

\* First half of mark_responded: the SELECT, the two early returns, and the
\* three attribute assignments on the session's object.
MarkRespondedLookup(p, id, responder) ==
    /\ pc[p] = "idle"
    /\ LET found == RowsWithId(store, id)
       IN  IF found = {}
           THEN /\ resp' = Response("mark-responded", 404, "not found", id)
                /\ UNCHANGED <<pc, local>>
           ELSE LET packet == store[First(found)]
                IN  IF packet.status = "RESPONDED"
                    THEN /\ resp' = Response("mark-responded", 200,
                                   "SOS packet already marked as responded", id)
                         /\ UNCHANGED <<pc, local>>
                    ELSE /\ pc' = [pc EXCEPT ![p] = "mark_commit"]
                         /\ local' = [local EXCEPT ![p] =
                                [sos_id       |-> id,
                                 status       |-> "RESPONDED",
                                 responded_at |-> Some(now),
                                 responder_id |-> Some(responder)]]
                         /\ resp' = NoResp
    /\ UNCHANGED <<store, now>>

\* An UPDATE that leaves responded_at alone once it is set.
UpdateRowKeepTime(row, obj) ==
    IF row.sos_id = obj.sos_id
    THEN [row EXCEPT !.status       = obj.status,
                     !.responded_at = IF @ = None THEN obj.responded_at ELSE @,
                     !.responder_id = obj.responder_id]
    ELSE row

\* An UPDATE that carries the status alone.
UpdateRowStatusOnly(row, obj) ==
    IF row.sos_id = obj.sos_id
    THEN [row EXCEPT !.status = obj.status]
    ELSE row

\* The UPDATE without its WHERE clause.
UpdateRowNoWhere(row, obj) ==
    [row EXCEPT !.status       = obj.status,
                !.responded_at = obj.responded_at,
                !.responder_id = obj.responder_id]

\* UPDATE sos_packets SET status, responded_at, responder_id WHERE sos_id:
\* one statement carrying the three modified attributes.
UpdateRow(row, obj) ==
    IF row.sos_id = obj.sos_id
    THEN [row EXCEPT !.status       = obj.status,
                     !.responded_at = obj.responded_at,
                     !.responder_id = obj.responder_id]
    ELSE row

\* A commit that removes the handled row from the table.
MarkRespondedCommitDelete(p) ==
    /\ pc[p] = "mark_commit"
    /\ store' = SelectSeq(store, LAMBDA row : row.sos_id # local[p].sos_id)
    /\ resp' = Response("mark-responded", 200,
                        "SOS packet marked as responded", local[p].sos_id)
    /\ pc' = [pc EXCEPT ![p] = "idle"]
    /\ local' = [local EXCEPT ![p] = None]
    /\ UNCHANGED now

\* Second half of mark_responded: db.commit flushes the UPDATE.
MarkRespondedCommit(p) ==
    /\ pc[p] = "mark_commit"
    /\ store' = [i \in 1..Len(store) |-> UpdateRow(store[i], local[p])]
    /\ resp' = Response("mark-responded", 200,
                        "SOS packet marked as responded", local[p].sos_id)
    /\ pc' = [pc EXCEPT ![p] = "idle"]
    /\ local' = [local EXCEPT ![p] = None]
    /\ UNCHANGED now

\* ------------------------------------------------------------ active-sos
\* SosPacketResponse.model_validate: the response schema has no
\* responder_id (nor signature / uploaded_by_device_id).
SosPacketResponse(row) ==
    [sos_id             |-> row.sos_id,
     device_id          |-> row.device_id,
     timestamp          |-> row.timestamp,
     latitude           |-> row.latitude,
     longitude          |-> row.longitude,
     accuracy           |-> row.accuracy,
     emergency_type     |-> row.emergency_type,
     optional_message   |-> row.optional_message,
     battery_percentage |-> row.battery_percentage,
     hop_count          |-> row.hop_count,
     ttl                |-> row.ttl,
     status             |-> row.status,
     received_at        |-> row.received_at,
     responded_at       |-> row.responded_at]

\* A WHERE clause without the status condition.
ActiveFilterAnyStatus(table, clock, type, hours) ==
    {i \in 1..Len(table) :
        /\ table[i].received_at >= clock - hours
        /\ (type # Absent => table[i].emergency_type = type)}

\* A WHERE clause whose window is on the client timestamp.
ActiveFilterOnTimestamp(table, clock, type, hours) ==
    {i \in 1..Len(table) :
        /\ table[i].status # "RESPONDED"
        /\ table[i].timestamp >= clock - hours
        /\ (type # Absent => table[i].emergency_type = type)}

\* The WHERE clause of get_active_sos, as the set of row positions it keeps.
ActiveFilter(table, clock, type, hours) ==
    {i \in 1..Len(table) :
        /\ table[i].status # "RESPONDED"
        /\ table[i].received_at >= clock - hours
        /\ (type # Absent => table[i].emergency_type = type)}

RECURSIVE Perms(_)
Perms(S) ==
    IF S = {} THEN {<<>>}
    ELSE UNION {{<<x>> \o t : t \in Perms(S \ {x})} : x \in S}

\* ORDER BY received_at DESC
OrderByReceivedAtDesc(table, S) ==
    {s \in Perms(S) :
        \A k \in 1..(Len(s) - 1) :
            table[s[k]].received_at >= table[s[k + 1]].received_at}

\* ORDER BY timestamp DESC: every arrangement of the kept rows with
\* non-increasing timestamp (SQL leaves the order of equal keys open).
OrderByTimestampDesc(table, S) ==
    {s \in Perms(S) :
        \A k \in 1..(Len(s) - 1) : table[s[k]].timestamp >= table[s[k + 1]].timestamp}

\* LIMIT n
Limit(s, n) == SubSeq(s, 1, IF Len(s) < n THEN Len(s) ELSE n)

ActiveResponse(packets, args) ==
    [op |-> "active-sos", code |-> 200, message |-> "", sos_id |-> NoId,
     packets |-> packets, args |-> args]

\* An hours parameter brought into its range instead of being checked.
HoursParamClamped(raw) ==
    IF raw = None THEN DefaultHours
    ELSE IF raw[1] < MinHours THEN MinHours
    ELSE IF raw[1] > MaxHours THEN MaxHours
    ELSE raw[1]

\* hours: int = Query(24, ge=1, le=168)
HoursParam(raw) == IF raw = None THEN DefaultHours ELSE raw[1]

\* limit: int = Query(100, ge=1, le=500)
LimitParam(raw) == IF raw = None THEN DefaultLimit ELSE raw[1]

\* get_active_sos.  The route declares no dependency on verify_api_key: the
\* X-API-Key header of the request is not looked at.  args records the
\* request: the filter as sent, hours and limit after their defaults, the key.
GetActiveSos(rawType, rawHours, rawLimit, apiKey) ==
    /\ LET type  == ParseEmergencyTypeQuery(rawType)
           hours == HoursParam(rawHours)
           limit == LimitParam(rawLimit)
           args  == <<rawType, hours, limit, apiKey>>
       IN  IF \/ ~type.ok
              \/ hours < MinHours \/ hours > MaxHours
              \/ limit < MinLimit \/ limit > MaxLimit
           THEN resp' = [Response("active-sos", 422, "validation error", NoId)
                            EXCEPT !.args = args]
           ELSE \E s \in OrderByTimestampDesc(store,
                             ActiveFilter(store, now, type.value, hours)) :
                    resp' = ActiveResponse(
                              [k \in 1..Len(Limit(s, limit)) |->
                                   SosPacketResponse(store[Limit(s, limit)[k]])],
                              args)
    /\ UNCHANGED <<store, now, pc, local>>

\* ------------------------------------------------------------- sos/{id}
\* get_sos_by_id answering 200 with nothing when the id is unknown.
GetSosByIdNoMiss(id) ==
    /\ LET found == RowsWithId(store, id)
       IN  IF found = {}
           THEN resp' = Response("sos", 200, "", id)
           ELSE resp' = [Response("sos", 200, "", id) EXCEPT !.packets =
                    <<SosPacketResponse(store[First(found)])>>]
    /\ UNCHANGED <<store, now, pc, local>>

GetSosById(id) ==
    /\ LET found == RowsWithId(store, id)
       IN  IF found = {}
           THEN resp' = Response("sos", 404, "not found", id)
           ELSE resp' = [Response("sos", 200, "", id) EXCEPT !.packets =
                    <<SosPacketResponse(store[First(found)])>>]
    /\ UNCHANGED <<store, now, pc, local>>

\* ----------------------------------------------------------------- system
\* Any number of workers serve requests against the one database: every
\* handler of Handlers may be between its two statements at any time.
Next ==
    \/ Tick
    \/ \E p \in Handlers, id \in RaceIds, r \in UploadRequests :
           UploadSosLookup(p, id, now - r[1], r[2], r[3])
    \/ \E p \in Handlers : UploadSosInsert(p)
    \/ \E p \in Handlers, id \in RaceIds, r \in ResponderIds :
           MarkRespondedLookup(p, id, r)
    \/ \E p \in Handlers : MarkRespondedCommit(p)
    \/ \E r \in KeyedActiveRequests : GetActiveSos(r[1], r[2], r[3], r[4])
    \/ \E id \in RaceIds : GetSosById(id)

Spec == Init /\ [][Next]_vars

\* One worker whose requests arrive one after the other: a handler runs its
\* two statements before the next upload or mark request is taken.
SeqNext ==
    \/ Tick
    \/ \E id \in Ids, r \in UploadRequests :
           UploadSosLookup(1, id, now - r[1], r[2], r[3])
    \/ UploadSosInsert(1)
    \/ \E id \in Ids, r \in ResponderIds : MarkRespondedLookup(1, id, r)
    \/ MarkRespondedCommit(1)
    \/ \E r \in ActiveRequests : GetActiveSos(r[1], r[2], r[3], r[4])
    \/ \E id \in Ids : GetSosById(id)

SpecSeq == Init /\ [][SeqNext]_vars

\* ================================================================ claims
AlreadyExists == "SOS packet already exists in database"
Created       == "SOS packet uploaded successfully"
AlreadyMarked == "SOS packet already marked as responded"
Marked        == "SOS packet marked as responded"

\* C1: with requests served one after the other, an upload of an id that is
\* not stored and whose timestamp is fresh is taken to the insert and
\* answered 200 "uploaded successfully" with exactly one row for the id in
\* the table; every upload of a well-formed packet whose id is stored is
\* answered 200 "already exists" and leaves the table as it is; no id ever
\* has two rows.
UploadIdempotent ==
    [][\A id \in Ids :
        /\ \A ts \in Timestamps, t \in TypeInputs :
             (UploadSosLookup(1, id, ts, t, GoodBody) /\ RowsWithId(store, id) = {}
                  /\ now - ts <= MaxAgeHours)
             => (pc'[1] = "upload_insert" /\ local'[1].sos_id = id)
        /\ (resp'.op = "upload-sos" /\ resp'.sos_id = id /\ pc[1] = "upload_insert")
             => /\ resp'.code = 200
                /\ resp'.message = Created
                /\ Cardinality(RowsWithId(store', id)) = 1
        /\ (resp'.op = "upload-sos" /\ resp'.sos_id = id /\ resp'.code # 422
                /\ RowsWithId(store, id) # {})
             => /\ resp'.code = 200
                /\ resp'.message = AlreadyExists
                /\ store' = store
        /\ Cardinality(RowsWithId(store', id)) <= 1]_vars

\* C1 witness: a repeated upload has just been answered "already exists"
\* and the table holds one row for its id.
UploadIdempotentWitness ==
    /\ resp.op = "upload-sos"
    /\ resp.code = 200
    /\ resp.message = AlreadyExists
    /\ Cardinality(RowsWithId(store, resp.sos_id)) = 1

\* C2 (as claimed): an upload that reaches its insert is always answered
\* 200, also when another handler inserted the same id after this one's
\* lookup, and the table then holds exactly one row for the id.
ConcurrentUploadSucceeds ==
    (resp.op = "upload-sos" /\ resp.code \notin {400, 422})
        => /\ resp.code = 200
           /\ Cardinality(RowsWithId(store, resp.sos_id)) = 1

\* C3: with requests served one after the other, a mark-responded request
\* for a packet that is RESPONDED is answered 200 and leaves the packet's
\* responder_id and responded_at (and the rest of the table) as they were.
RemarkIdempotent ==
    [][\A i \in 1..Len(store) :
        (/\ store[i].status = "RESPONDED"
         /\ resp'.op = "mark-responded"
         /\ resp'.sos_id = store[i].sos_id)
        => /\ resp'.code = 200
           /\ Len(store') = Len(store)
           /\ store'[i].responder_id = store[i].responder_id
           /\ store'[i].responded_at = store[i].responded_at
           /\ store'[i].status = "RESPONDED"]_vars

\* C3 witness: a second mark-responded, by another responder at a later
\* hour, has just been answered "already marked".
RemarkIdempotentWitness ==
    /\ resp.op = "mark-responded"
    /\ resp.code = 200
    /\ resp.message = AlreadyMarked
    /\ \E i \in RowsWithId(store, resp.sos_id) :
           /\ store[i].status = "RESPONDED"
           /\ store[i].responded_at # Some(now)

\* Handlers that hold an unflushed RESPONDED update for packet id.
MarkInFlight(id) ==
    {p \in Handlers : pc[p] = "mark_commit" /\ local[p].sos_id = id}

\* C4 (as claimed): once responded_at and responder_id of a row are set,
\* no step changes either of them.
RespondedWrittenOnce ==
    [][\A i \in 1..Len(store) :
        store[i].responded_at # None
        => /\ store'[i].responded_at = store[i].responded_at
           /\ store'[i].responder_id = store[i].responder_id]_vars

\* C4 (amended): once responded_at and responder_id of a row are set, no
\* handler takes up a new update of the row, and the two values change only
\* in a step where a handler that had read the row before they were set is
\* still to commit; with no such handler left they never change again.
RespondedWrittenOncePerReader ==
    [][\A i \in 1..Len(store) :
        store[i].responded_at # None
        => /\ MarkInFlight(store[i].sos_id)' \subseteq MarkInFlight(store[i].sos_id)
           /\ MarkInFlight(store[i].sos_id) = {}
                => /\ store'[i].responded_at = store[i].responded_at
                   /\ store'[i].responder_id = store[i].responder_id]_vars

\* C4 witness: a row is RESPONDED and a handler that read it earlier holds
\* an update with another responder for it.
RespondedWrittenOncePerReaderWitness ==
    \E i \in 1..Len(store) : \E p \in MarkInFlight(store[i].sos_id) :
        /\ store[i].status = "RESPONDED"
        /\ store[i].responder_id # None
        /\ local[p].responder_id # store[i].responder_id

\* C5: every commit of mark_responded is answered 200 and leaves the row
\* RESPONDED with responded_at and responder_id both those of the
\* committing call; no other step changes either field.
MarkRaceLastWriterWins ==
    [][/\ \A p \in Handlers :
            (pc[p] = "mark_commit" /\ pc'[p] = "idle")
            => /\ resp'.op = "mark-responded"
               /\ resp'.code = 200
               /\ \A i \in RowsWithId(store, local[p].sos_id) :
                    /\ store'[i].status = "RESPONDED"
                    /\ store'[i].responded_at = local[p].responded_at
                    /\ store'[i].responder_id = local[p].responder_id
       /\ \A i \in 1..Len(store) :
            (\/ store'[i].responded_at # store[i].responded_at
             \/ store'[i].responder_id # store[i].responder_id)
            => \E p \in MarkInFlight(store[i].sos_id) :
                    /\ pc'[p] = "idle"
                    /\ store'[i].responded_at = local[p].responded_at
                    /\ store'[i].responder_id = local[p].responder_id]_vars

\* C5 witness: two handlers hold updates for the same DELIVERED packet, with
\* different responders and different hours.
MarkRaceWitness ==
    \E p \in Handlers, q \in Handlers :
        /\ p # q
        /\ pc[p] = "mark_commit" /\ pc[q] = "mark_commit"
        /\ local[p].sos_id = local[q].sos_id
        /\ local[p].responder_id # local[q].responder_id
        /\ local[p].responded_at # local[q].responded_at
        /\ \E i \in RowsWithId(store, local[p].sos_id) : store[i].status = "DELIVERED"

\* C6: rows are never removed or re-keyed, and the only status change of a
\* row is from a status other than RESPONDED to RESPONDED: a RESPONDED row is
\* RESPONDED after every step.
StatusMonotonic ==
    [][/\ Len(store') >= Len(store)
       /\ \A i \in 1..Len(store) :
            /\ store'[i].sos_id = store[i].sos_id
            /\ store'[i].status # store[i].status
                 => (store[i].status # "RESPONDED" /\ store'[i].status = "RESPONDED")]_vars

\* C6 witness: a RESPONDED packet has just been uploaded again.
StatusMonotonicWitness ==
    /\ resp.op = "upload-sos"
    /\ resp.message = AlreadyExists
    /\ \E i \in RowsWithId(store, resp.sos_id) : store[i].status = "RESPONDED"

\* The ids of the packets of an active-sos response.
ReturnedIds == {resp.packets[k].sos_id : k \in 1..Len(resp.packets)}

ActiveOk == resp.op = "active-sos" /\ resp.code = 200

\* C7: from the moment a mark-responded request for an id is answered 200,
\* no active-sos response contains a packet with that id.
RespondedExcluded ==
    \A id \in Ids :
        []((resp.op = "mark-responded" /\ resp.code = 200 /\ resp.sos_id = id)
            => [](ActiveOk => id \notin ReturnedIds))

\* C7 witness: an active-sos response that returns nothing while the table
\* holds a RESPONDED row inside the window and of the requested type.
RespondedExcludedWitness ==
    /\ ActiveOk
    /\ resp.packets = <<>>
    /\ \E i \in 1..Len(store) :
           /\ store[i].status = "RESPONDED"
           /\ store[i].received_at >= now - resp.args[2]
           /\ (resp.args[1] # Absent => store[i].emergency_type = resp.args[1])

\* The rows an active-sos request with the arguments of resp is to select.
Selected ==
    {i \in 1..Len(store) :
        /\ store[i].status # "RESPONDED"
        /\ store[i].received_at >= now - resp.args[2]
        /\ (resp.args[1] # Absent => store[i].emergency_type = resp.args[1])}

\* C8: an active-sos response holds only packets of rows that are not
\* RESPONDED, were received within the last `hours` hours and are of the
\* requested type; when at most `limit` rows qualify, it holds them all.
ActiveSelection ==
    ActiveOk
    => /\ \A k \in 1..Len(resp.packets) :
            \E i \in Selected : resp.packets[k] = SosPacketResponse(store[i])
       /\ Cardinality(Selected) <= resp.args[3]
            => /\ Len(resp.packets) = Cardinality(Selected)
               /\ \A i \in Selected : store[i].sos_id \in ReturnedIds

\* C8 witness: a response that returns a packet whose client timestamp is
\* older than the window, and leaves out a row received before the window.
ActiveSelectionWitness ==
    /\ ActiveOk
    /\ \E k \in 1..Len(resp.packets) : resp.packets[k].timestamp < now - resp.args[2]
    /\ \E i \in 1..Len(store) :
           /\ store[i].status # "RESPONDED"
           /\ store[i].received_at < now - resp.args[2]
           /\ store[i].sos_id \notin ReturnedIds

\* C9: an active-sos response holds at most `limit` packets, in
\* non-increasing order of timestamp, and no qualifying row that it leaves
\* out has a timestamp greater than that of a returned packet.
ActiveOrderAndLimit ==
    ActiveOk
    => /\ Len(resp.packets) <= resp.args[3]
       /\ \A k \in 1..(Len(resp.packets) - 1) :
            resp.packets[k].timestamp >= resp.packets[k + 1].timestamp
       /\ \A i \in Selected :
            store[i].sos_id \notin ReturnedIds
            => \A k \in 1..Len(resp.packets) :
                   store[i].timestamp <= resp.packets[k].timestamp

\* C9 witness: two rows qualify and limit is 1; the packet returned is the
\* one uploaded first, with the later timestamp.
ActiveOrderAndLimitWitness ==
    /\ ActiveOk
    /\ resp.args[3] = 1
    /\ Cardinality(Selected) = 2
    /\ Len(resp.packets) = 1
    /\ resp.packets[1].sos_id = store[1].sos_id
    /\ store[2].timestamp < store[1].timestamp

\* C10 (as claimed): with one MEDICAL and one FIRE packet active, an
\* active-sos request with emergency_type=medical is answered 200 with
\* exactly the MEDICAL packet.
LowerCaseFilterAccepted ==
    (/\ resp.op = "active-sos"
     /\ resp.args[1] = "medical"
     /\ Len(store) = 2
     /\ \E i \in 1..2 : store[i].emergency_type = "MEDICAL"
     /\ \E i \in 1..2 : store[i].emergency_type = "FIRE"
     /\ \A i \in 1..2 : store[i].status = "DELIVERED"
                          /\ store[i].received_at >= now - resp.args[2])
    => /\ resp.code = 200
       /\ Len(resp.packets) = 1
       /\ resp.packets[1].emergency_type = "MEDICAL"

\* The fields of a row that come from the client.
ClientFields ==
    {"sos_id", "device_id", "timestamp", "latitude", "longitude", "accuracy",
     "emergency_type", "optional_message", "battery_percentage", "hop_count",
     "ttl", "signature"}

\* The fields of a packet in a response.
ResponseFields ==
    (ClientFields \ {"signature"}) \cup {"status", "received_at", "responded_at"}

\* C11: an upload request that is taken to the insert carries the fields of
\* its body, with emergency_type in upper case; the insert that is answered
\* "uploaded successfully" appends one row with those fields, status
\* DELIVERED, received_at the hour of the insert and responded_at and
\* responder_id unset; sos/{id} answers 200 with the fields of the stored row.
IngestStores ==
    [][/\ \A p \in Handlers, id \in Ids, r \in UploadRequests :
            (UploadSosLookup(p, id, now - r[1], r[2], r[3]) /\ pc'[p] = "upload_insert")
            => /\ local'[p].sos_id = id
               /\ local'[p].timestamp = now - r[1]
               /\ local'[p].emergency_type = (IF r[2] = "medical" THEN "MEDICAL" ELSE r[2])
               /\ \A f \in ClientFields \ {"sos_id", "timestamp", "emergency_type"} :
                      local'[p][f] = r[3][f]
       /\ \A p \in Handlers :
            (pc[p] = "upload_insert" /\ pc'[p] = "idle" /\ resp'.message = Created)
            => /\ Len(store') = Len(store) + 1
               /\ \A i \in 1..Len(store) : store'[i] = store[i]
               /\ LET row == store'[Len(store')]
                  IN  /\ \A f \in ClientFields : row[f] = local[p][f]
                      /\ row.status = "DELIVERED"
                      /\ row.received_at = now
                      /\ row.responded_at = None
                      /\ row.responder_id = None
       /\ (resp'.op = "sos" /\ resp'.code = 200)
            => \E i \in 1..Len(store) :
                   /\ store[i].sos_id = resp'.sos_id
                   /\ Len(resp'.packets) = 1
                   /\ \A f \in ResponseFields : resp'.packets[1][f] = store[i][f]]_vars

\* C11 witness: sos/{id} has just returned a packet uploaded this hour as
\* "medical": MEDICAL, DELIVERED, not responded, latitude as sent.
IngestStoresWitness ==
    /\ resp.op = "sos"
    /\ resp.code = 200
    /\ resp.packets[1].emergency_type = "MEDICAL"
    /\ resp.packets[1].status = "DELIVERED"
    /\ resp.packets[1].received_at = now
    /\ resp.packets[1].responded_at = None
    /\ resp.packets[1].latitude = GoodBody.latitude

\* C12: an upload of a well-formed packet whose id is not stored and whose
\* timestamp is more than the maximum age behind the clock is answered 400,
\* goes no further, and leaves the table as it is, the id still absent.
StaleRejected ==
    [][\A p \in Handlers, id \in Ids, r \in UploadRequests :
        (/\ UploadSosLookup(p, id, now - r[1], r[2], r[3])
         /\ r[3] = GoodBody
         /\ RowsWithId(store, id) = {}
         /\ now - (now - r[1]) > MaxAgeHours)
        => /\ resp'.op = "upload-sos"
           /\ resp'.code = 400
           /\ resp'.sos_id = id
           /\ pc' = pc
           /\ store' = store
           /\ RowsWithId(store', id) = {}]_vars

\* C12 witness: an upload has just been answered 400 and its id is absent.
StaleRejectedWitness ==
    /\ resp.op = "upload-sos"
    /\ resp.code = 400
    /\ RowsWithId(store, resp.sos_id) = {}

\* C13 (as claimed): an upload of a well-formed packet whose id is not
\* stored and whose timestamp is 2 hours behind the clock is answered 400
\* and goes no further.
TwoHourOldRejected ==
    [][\A p \in Handlers, id \in Ids, t \in TypeInputs :
        (UploadSosLookup(p, id, now - 2, t, GoodBody) /\ RowsWithId(store, id) = {})
        => /\ resp'.code = 400
           /\ pc' = pc]_vars

\* C14: a mark-responded request for an id that is not stored is answered
\* 404, starts no update, and leaves the table as it is.
MarkUnknownNotFound ==
    [][\A p \in Handlers, id \in Ids, r \in ResponderIds :
        (MarkRespondedLookup(p, id, r) /\ RowsWithId(store, id) = {})
        => /\ resp'.op = "mark-responded"
           /\ resp'.code = 404
           /\ resp'.sos_id = id
           /\ pc' = pc
           /\ store' = store]_vars

\* C14 witness: a mark-responded for an unknown id has just been answered
\* 404 while the table holds another packet.
MarkUnknownNotFoundWitness ==
    /\ resp.op = "mark-responded"
    /\ resp.code = 404
    /\ RowsWithId(store, resp.sos_id) = {}
    /\ Len(store) = 1

\* C15: sos/{id} and active-sos are pure reads.  sos/{id} answers 200 with
\* the stored packet when the id is stored and 404 with no packet when it is
\* not; neither request, whatever its arguments and its answer, changes the
\* table or any handler in flight.
PureReads ==
    [][/\ resp'.op \in {"sos", "active-sos"}
            => /\ store' = store
               /\ pc' = pc
               /\ local' = local
       /\ \A id \in Ids :
            GetSosById(id)
            => /\ resp'.op = "sos"
               /\ resp'.sos_id = id
               /\ IF \E i \in 1..Len(store) : store[i].sos_id = id
                  THEN /\ resp'.code = 200
                       /\ Len(resp'.packets) = 1
                       /\ resp'.packets[1].sos_id = id
                       /\ \E i \in 1..Len(store) :
                            \A f \in ResponseFields :
                                resp'.packets[1][f] = store[i][f]
                  ELSE /\ resp'.code = 404
                       /\ resp'.packets = <<>>]_vars

\* C15 witness: sos/{id} has just answered 404 for an unknown id while the
\* table holds another packet.
PureReadsWitness ==
    /\ resp.op = "sos"
    /\ resp.code = 404
    /\ Len(store) = 1
    /\ store[1].sos_id # resp.sos_id

\* The three columns mark_responded assigns.
ResponseColumns == {"status", "responded_at", "responder_id"}

\* C16: a stored row keeps its place, its received_at and every
\* client-supplied field through every step; a row changes only in the
\* commit of a mark-responded for its own id, and then only in status,
\* responded_at and responder_id.
RowFrame ==
    [][\A i \in 1..Len(store) :
        /\ Len(store') >= i
        /\ store'[i].received_at = store[i].received_at
        /\ \A f \in ClientFields : store'[i][f] = store[i][f]
        /\ \A f \in (DOMAIN store[i]) \ ResponseColumns : store'[i][f] = store[i][f]
        /\ store'[i] # store[i]
             => /\ resp'.op = "mark-responded"
                /\ resp'.code = 200
                /\ resp'.sos_id = store[i].sos_id]_vars

\* C16 witness: a mark-responded has just committed on one of two stored
\* packets; the other is still DELIVERED.
RowFrameWitness ==
    /\ resp.op = "mark-responded"
    /\ resp.message = Marked
    /\ Len(store) = 2
    /\ \E i, j \in 1..2 :
         /\ store[i].sos_id = resp.sos_id
         /\ store[i].status = "RESPONDED"
         /\ store[j].sos_id # resp.sos_id
         /\ store[j].status = "DELIVERED"
         /\ store[j].responded_at = None

\* C17: nothing is deleted.  An id that is stored is stored after every
\* step, under any interleaving of the handlers; while it is stored,
\* sos/{id} answers 200 and an upload of a well-formed packet with that id
\* is answered "already exists" without going on to an INSERT.
NeverDeleted ==
    [][\A id \in Ids :
        RowsWithId(store, id) # {}
        => /\ RowsWithId(store', id) # {}
           /\ GetSosById(id) => resp'.code = 200
           /\ \A p \in Handlers, r \in UploadRequests :
                (UploadSosLookup(p, id, now - r[1], r[2], r[3]) /\ r[3] = GoodBody)
                => /\ resp'.code = 200
                   /\ resp'.message = AlreadyExists
                   /\ pc' = pc]_vars

\* C17 witness: a packet that was created and later marked responded is
\* uploaded again and reported as already existing.
NeverDeletedWitness ==
    /\ resp.op = "upload-sos"
    /\ resp.message = AlreadyExists
    /\ \E i \in 1..Len(store) :
         /\ store[i].sos_id = resp.sos_id
         /\ store[i].status = "RESPONDED"

\* A request body with a field outside its range.
OutOfRange(body) ==
    \/ body.latitude < -90 \/ body.latitude > 90
    \/ body.longitude < -180 \/ body.longitude > 180
    \/ (body.battery_percentage # None
          /\ (body.battery_percentage[1] < 0 \/ body.battery_percentage[1] > 100))
    \/ body.hop_count < 0 \/ body.hop_count > 100
    \/ body.ttl < 0 \/ body.ttl > 100

\* C18: an upload whose body has a field outside its range (latitude
\* outside [-90,90], longitude outside [-180,180], battery, hop count or ttl
\* outside [0,100]) is answered 422 before the table is looked at: the
\* table is unchanged and no INSERT is started, whether or not the id is
\* already stored.
RangeValidated ==
    [][\A p \in Handlers, id \in Ids, r \in UploadRequests :
        (UploadSosLookup(p, id, now - r[1], r[2], r[3]) /\ OutOfRange(r[3]))
        => /\ resp'.op = "upload-sos"
           /\ resp'.code = 422
           /\ store' = store
           /\ pc' = pc
           /\ local' = local]_vars

\* C18 witness: an upload of an id that is already stored has just been
\* answered 422.
RangeValidatedWitness ==
    /\ resp.op = "upload-sos"
    /\ resp.code = 422
    /\ RowsWithId(store, resp.sos_id) # {}

\* C19: active-sos rejects parameters outside their ranges and never
\* clamps them: hours outside [1,168] or limit outside [1,500] is answered
\* 422 with no packets.  An omitted hours is 24 and an omitted limit is 100:
\* a request with neither parameter nor filter returns every DELIVERED
\* packet received in the last 24 hours.
ActiveParamsValidated ==
    [][\A r \in ActiveRequests :
        GetActiveSos(r[1], r[2], r[3], r[4])
        => /\ ((r[2] # None /\ (r[2][1] < 1 \/ r[2][1] > 168))
                 \/ (r[3] # None /\ (r[3][1] < 1 \/ r[3][1] > 500)))
              => /\ resp'.code = 422
                 /\ resp'.packets = <<>>
           /\ r[2] = None => resp'.args[2] = 24
           /\ r[3] = None => resp'.args[3] = 100
           /\ r[2] # None => resp'.args[2] = r[2][1]
           /\ r[3] # None => resp'.args[3] = r[3][1]
           /\ resp'.code = 200
              => /\ resp'.args[2] >= 1 /\ resp'.args[2] <= 168
                 /\ resp'.args[3] >= 1 /\ resp'.args[3] <= 500
           /\ (r[1] = Absent /\ r[2] = None /\ r[3] = None)
              => /\ resp'.code = 200
                 /\ {resp'.packets[k].sos_id : k \in 1..Len(resp'.packets)}
                      = {store[i].sos_id : i \in
                           {n \in 1..Len(store) :
                              /\ store[n].status = "DELIVERED"
                              /\ store[n].received_at >= now - 24}}]_vars

\* C19 witness: an active-sos request with hours or limit outside its range
\* has just been answered 422 while the table holds an active packet.
ActiveParamsValidatedWitness ==
    /\ resp.op = "active-sos"
    /\ resp.code = 422
    /\ (resp.args[2] < 1 \/ resp.args[2] > 168 \/ resp.args[3] < 1 \/ resp.args[3] > 500)
    /\ \E i \in 1..Len(store) :
         /\ store[i].status = "DELIVERED"
         /\ store[i].received_at >= now - 1

\* C20 (as claimed): an active-sos request without an X-API-Key header is
\* answered 422, one with a key other than the configured key is answered
\* 401, and only a request with the configured key is answered 200.
ApiKeyGuards ==
    resp.op = "active-sos"
    => /\ resp.args[4] = None => resp.code = 422
       /\ (resp.args[4] # None /\ resp.args[4] # Some(ConfiguredKey))
            => resp.code = 401
       /\ resp.code = 200 => resp.args[4] = Some(ConfiguredKey)

\* C21: deduplication is decided before freshness.  An upload of a
\* well-formed packet whose id is stored and whose timestamp is more than
\* the maximum age behind the clock is answered 200 "already exists", not
\* 400; a 400 is only ever the answer to an upload of an id that is not
\* stored.
DedupBeforeFreshness ==
    [][/\ \A p \in Handlers, id \in Ids, r \in UploadRequests :
            (/\ UploadSosLookup(p, id, now - r[1], r[2], r[3])
             /\ r[3] = GoodBody
             /\ now - (now - r[1]) > MaxAgeHours
             /\ \E i \in 1..Len(store) : store[i].sos_id = id)
            => /\ resp'.op = "upload-sos"
               /\ resp'.code = 200
               /\ resp'.message = AlreadyExists
               /\ resp'.sos_id = id
       /\ (resp'.op = "upload-sos" /\ resp'.code = 400)
            => \A i \in 1..Len(store) : store[i].sos_id # resp'.sos_id]_vars

\* C21 witness: an upload of a stored id with a timestamp older than the
\* maximum age has just been answered "already exists".
DedupBeforeFreshnessWitness ==
    /\ resp.op = "upload-sos"
    /\ resp.message = AlreadyExists
    /\ now - resp.args[1] > MaxAgeHours
    /\ \E i \in 1..Len(store) : store[i].sos_id = resp.sos_id

\* C22: an upload of an id that is already stored changes nothing in the
\* table, whatever its payload and whichever of the handler's two steps
\* meets the stored row: every field of every row keeps its value, and a
\* RESPONDED row keeps its status, responded_at and responder_id.
DuplicateUploadNoOp ==
    [][/\ \A p \in Handlers, id \in Ids, r \in UploadRequests :
            (/\ UploadSosLookup(p, id, now - r[1], r[2], r[3])
             /\ \E i \in 1..Len(store) : store[i].sos_id = id)
            => /\ store' = store
               /\ pc' = pc
       /\ \A p \in Handlers :
            (/\ UploadSosInsert(p)
             /\ \E i \in 1..Len(store) : store[i].sos_id = local[p].sos_id)
            => /\ store' = store
               /\ resp'.message # Created
       /\ resp'.op = "upload-sos"
            => \A i \in 1..Len(store) :
                   /\ store'[i] = store[i]
                   /\ store[i].status = "RESPONDED"
                        => /\ store'[i].status = "RESPONDED"
                           /\ store'[i].responded_at # None
                           /\ store'[i].responder_id # None]_vars

\* C22 witness: a RESPONDED packet has just been uploaded again with a
\* timestamp other than the stored one and is still RESPONDED, with its
\* responder and its stored timestamp.
DuplicateUploadNoOpWitness ==
    /\ resp.op = "upload-sos"
    /\ resp.message = AlreadyExists
    /\ \E i \in 1..Len(store) :
         /\ store[i].sos_id = resp.sos_id
         /\ store[i].timestamp # resp.args[1]
         /\ store[i].status = "RESPONDED"
         /\ store[i].responder_id # None

\* C23: in every reachable state a stored packet is RESPONDED exactly when
\* responded_at and responder_id are both set, and a packet that is not
\* RESPONDED has neither.
RespondedIffStamped ==
    \A i \in 1..Len(store) :
        /\ store[i].status = "RESPONDED"
             <=> (store[i].responded_at # None /\ store[i].responder_id # None)
        /\ store[i].status # "RESPONDED"
             => (store[i].responded_at = None /\ store[i].responder_id = None)

\* C23 witness: a mark-responded has just committed while another handler
\* that read the packet as DELIVERED is still to commit; the packet is
\* RESPONDED with both fields set.
RespondedIffStampedWitness ==
    /\ resp.op = "mark-responded"
    /\ resp.message = Marked
    /\ \E p \in Handlers : pc[p] = "mark_commit"
    /\ \E i \in 1..Len(store) :
         /\ store[i].sos_id = resp.sos_id
         /\ store[i].status = "RESPONDED"
         /\ store[i].responded_at # None
         /\ store[i].responder_id \in {Some(r) : r \in ResponderIds}

\* C24: in every reachable state every stored packet's status is DELIVERED
\* or RESPONDED; PENDING and RELAYED are never stored.
StatusDeliveredOrResponded ==
    \A i \in 1..Len(store) :
        /\ store[i].status \in {"DELIVERED", "RESPONDED"}
        /\ store[i].status \notin {"PENDING", "RELAYED"}

\* C24 witness: the table holds a DELIVERED packet and a RESPONDED packet.
StatusDeliveredOrRespondedWitness ==
    /\ \E i \in 1..Len(store) : store[i].status = "DELIVERED"
    /\ \E i \in 1..Len(store) : store[i].status = "RESPONDED"
    /\ resp.op = "sos"

====
